---- MODULE Spec2Model ----
(***************************************************************************)
(* Model of record-example.c: a variable sized record fifo (struct         *)
(* kfifo_rec_ptr_1 test), its start-up self test (testfunc), the module    *)
(* initialisation (example_init / example_exit) and the two procfs         *)
(* handlers fifo_read / fifo_write, each serialised by its own mutex.      *)
(*                                                                         *)
(* The kfifo macros the file calls (kfifo_in, kfifo_out, kfifo_skip,       *)
(* kfifo_out_peek, kfifo_peek_len, kfifo_len, kfifo_is_empty,              *)
(* kfifo_from_user, kfifo_to_user, kfifo_alloc, kfifo_free) are modelled   *)
(* at the place where the file calls them.  `test` is declared with a      *)
(* one byte record header (line 40), so every macro takes its record       *)
(* branch (the __kfifo_*_r functions of the kernel's lib/kfifo.c); the     *)
(* operators below are named after those functions.                        *)
(***************************************************************************)
EXTENDS Integers, Sequences, FiniteSets, TLC

----------------------------------------------------------------------------
(* Bounds of the model *)

\* width of an unsigned int in the model
UINT_BITS == 9

\* number of concurrent callers of the procfs handlers
NumProcs == 2

\* total number of fifo_read / fifo_write calls started in one run
MaxCalls == 2

\* number of kfifo calls made in one run of the record API specification
MaxOps == 5

\* total number of fifo_read / fifo_write calls started in one run of the
\* byte stream specification
MaxStreamCalls == 4

----------------------------------------------------------------------------
(* Program constants *)

\* #define FIFO_SIZE 128
FIFO_SIZE == 128

\* struct kfifo_rec_ptr_1: one byte of record length in front of each record
RECSIZE == 1

\* char buf[100] in testfunc
BUF_SIZE == 100

\* ARRAY_SIZE(expected_result)
N_EXPECTED == 10

\* in, out, len, ret, copied are `unsigned int`: arithmetic modulo 2^w. The
\* model keeps w = UINT_BITS bits (a bound, below), enough for counters that
\* run over several times the size of the fifo and wrap around.
UINT_MOD == 2^UINT_BITS

\* errno values returned by the file
EIO == 5
ENOMEM == 12
EFAULT == 14
ERESTARTSYS == 512

----------------------------------------------------------------------------
(* Byte strings: sequences of 0..255 *)

Min(a, b) == IF a < b THEN a ELSE b

Add32(a, b) == (a + b) % UINT_MOD

Sub32(a, b) == (a - b + UINT_MOD) % UINT_MOD

\* memset(buf, c, n): the first n bytes of buf become c
memset(b, c, n) == [k \in 1..Len(b) |-> IF k <= n THEN c ELSE b[k]]

\* the first n bytes of a buffer
Take(b, n) == [k \in 1..n |-> b[k]]

\* the C string held in a buffer: the bytes before the first NUL
RECURSIVE CStrLen(_, _)
CStrLen(b, k) ==
    IF k > Len(b) \/ b[k] = 0 THEN k - 1 ELSE CStrLen(b, k + 1)

CStr(b) == Take(b, CStrLen(b, 1))

\* strcmp(a, b) != 0
strcmp(a, b) == IF CStr(a) = CStr(b) THEN 0 ELSE 1

\* what printk writes for "%.*s" with precision n and buffer b: the bytes of
\* b up to the first NUL, n at most
printk_s(n, b) == CStr(Take(b, n))

\* struct { unsigned char buf[6]; } hello = {"hello"};
hello == <<104, 101, 108, 108, 111, 0>>

\* expected_result[k], k counted from 0: k+1 copies of the letter 'a'+k
expected_result(k) == [j \in 1..(k + 1) |-> 97 + k]

----------------------------------------------------------------------------
(* struct kfifo_rec_ptr_1: data (indexed 0..mask), in, out, mask *)

\* a byte of memory that kmalloc handed out and nothing has written yet: it
\* stands for any value 0..255
UNINIT == -1

\* what a read of a stored byte can give: the byte, or any value when the
\* byte was never written
ByteRead(v) == IF v = UNINIT THEN 0..255 ELSE {v}

\* a fifo without storage: the static `test` before kfifo_alloc, and after
\* kfifo_free
NullFifo == [data |-> <<>>, in |-> 0, out |-> 0, mask |-> 0]

RECURSIVE roundup_pow_of_two(_)
roundup_pow_of_two(n) ==
    IF n <= 1 THEN 1 ELSE 2 * roundup_pow_of_two((n + 1) \div 2)

\* faulty variant of kfifo_alloc: half the storage asked for
kfifo_alloc_small(size) ==
    LET sz == roundup_pow_of_two(size \div 2)
    IN  [data |-> [k \in 0..(sz - 1) |-> UNINIT], in |-> 0, out |-> 0,
         mask |-> sz - 1]

\* kfifo_alloc(&test, size, GFP_KERNEL): storage of size rounded up to a power
\* of two; kmalloc leaves the bytes uninitialised
kfifo_alloc(size) ==
    LET sz == roundup_pow_of_two(size)
    IN  [data |-> [k \in 0..(sz - 1) |-> UNINIT], in |-> 0, out |-> 0,
         mask |-> sz - 1]

\* kfifo_free(&test)
kfifo_free(f) == NullFifo

\* off & fifo->mask (mask + 1 is a power of two)
Masked(f, off) == off % (f.mask + 1)

\* kfifo_len(&test): in - out
kfifo_len(f) == Sub32(f.in, f.out)

\* faulty variant of kfifo_is_empty: the storage offsets are compared, so
\* a full fifo looks empty
kfifo_is_empty_masked(f) == Masked(f, f.in) = Masked(f, f.out)

\* kfifo_is_empty(&test): in == out
kfifo_is_empty(f) == f.in = f.out

\* kfifo_unused: (mask + 1) - (in - out)
kfifo_unused(f) == Sub32(f.mask + 1, Sub32(f.in, f.out))

\* __kfifo_max_r: a record length is at most 2^(8 * recsize) - 1
kfifo_max_r(len, recsize) ==
    LET max == 2^(8 * recsize) - 1 IN IF len > max THEN max ELSE len

\* __kfifo_poke_n: store the record length at fifo->in (recsize = 1: one byte)
kfifo_poke_n(f, n, recsize) ==
    [f EXCEPT !.data = [@ EXCEPT ![Masked(f, f.in)] = n % 256]]

\* __kfifo_peek_n: the record length stored at fifo->out (recsize = 1)
kfifo_peek_n(f, recsize) == f.data[Masked(f, f.out)]

\* faulty variant of kfifo_copy_in: the second memcpy (the part of the payload
\* that continues at the start of the storage) is left out
kfifo_copy_in_nowrap(f, src, len, off0) ==
    LET size == f.mask + 1
        off  == Masked(f, off0)
        l    == Min(len, size - off)
    IN  [f EXCEPT !.data =
            [k \in 0..f.mask |->
                IF k >= off /\ k < off + l THEN src[k - off + 1]
                ELSE f.data[k]]]

\* kfifo_copy_in: two memcpy, up to the end of the storage and from its start
kfifo_copy_in(f, src, len, off0) ==
    LET size == f.mask + 1
        off  == Masked(f, off0)
        l    == Min(len, size - off)
    IN  [f EXCEPT !.data =
            [k \in 0..f.mask |->
                IF k >= off /\ k < off + l THEN src[k - off + 1]
                ELSE IF k < len - l THEN src[l + k + 1]
                ELSE f.data[k]]]

\* kfifo_copy_out: two memcpy, the bytes copied to the destination
kfifo_copy_out(f, len, off0) ==
    LET size == f.mask + 1
        off  == Masked(f, off0)
        l    == Min(len, size - off)
    IN  [j \in 1..len |-> IF j <= l THEN f.data[off + j - 1]
                          ELSE f.data[j - l - 1]]

\* faulty variant of __kfifo_in_r: the space check forgets the length byte
kfifo_in_r_norecsize(f, src, len, recsize) ==
    IF len > kfifo_unused(f)
    THEN [f |-> f, ret |-> 0]
    ELSE LET g == kfifo_copy_in(kfifo_poke_n(f, len, recsize), src, len,
                                Add32(f.in, recsize))
         IN  [f |-> [g EXCEPT !.in = Add32(f.in, len + recsize)],
              ret |-> len]

\* kfifo_in(&test, buf, len) -> __kfifo_in_r: [f: the fifo after, ret]
kfifo_in_r(f, src, len, recsize) ==
    IF len + recsize > kfifo_unused(f)
    THEN [f |-> f, ret |-> 0]
    ELSE LET g == kfifo_copy_in(kfifo_poke_n(f, len, recsize), src, len,
                                Add32(f.in, recsize))
         IN  [f |-> [g EXCEPT !.in = Add32(f.in, len + recsize)],
              ret |-> len]

kfifo_in(f, src, len) == kfifo_in_r(f, src, len, RECSIZE)

\* kfifo_out_copy_r: [n: the length of the record at out, len, buf]
kfifo_out_copy_r(f, len0, recsize) ==
    LET n   == kfifo_peek_n(f, recsize)
        len == IF len0 > n THEN n ELSE len0
    IN  [n |-> n, len |-> len,
         buf |-> kfifo_copy_out(f, len, Add32(f.out, recsize))]

\* faulty variant of kfifo_out: out advances by what was copied, so the
\* rest of a truncated record stays in the fifo
kfifo_out_partial(f, size) ==
    IF f.in = f.out
    THEN [f |-> f, ret |-> 0, buf |-> <<>>]
    ELSE LET c == kfifo_out_copy_r(f, size, RECSIZE)
         IN  [f |-> [f EXCEPT !.out = Add32(f.out, c.len + RECSIZE)],
              ret |-> c.len, buf |-> c.buf]

\* kfifo_out(&test, buf, size) -> __kfifo_out_r: [f, ret, buf: bytes stored
\* in the first ret bytes of the destination]
kfifo_out(f, size) ==
    IF f.in = f.out
    THEN [f |-> f, ret |-> 0, buf |-> <<>>]
    ELSE LET c == kfifo_out_copy_r(f, size, RECSIZE)
         IN  [f |-> [f EXCEPT !.out = Add32(f.out, c.n + RECSIZE)],
              ret |-> c.len, buf |-> c.buf]

\* kfifo_out_peek(&test, buf, size) -> __kfifo_out_peek_r
kfifo_out_peek(f, size) ==
    IF f.in = f.out
    THEN [f |-> f, ret |-> 0, buf |-> <<>>]
    ELSE LET c == kfifo_out_copy_r(f, size, RECSIZE)
         IN  [f |-> f, ret |-> c.len, buf |-> c.buf]

\* faulty variant of kfifo_skip: only the length prefix is skipped
kfifo_skip_one(f) == [f EXCEPT !.out = Add32(f.out, RECSIZE)]

\* faulty variant of kfifo_skip: nothing is skipped
kfifo_skip_noop(f) == f

\* kfifo_skip(&test) -> __kfifo_skip_r: out += n + recsize
kfifo_skip(f) ==
    [f EXCEPT !.out = Add32(f.out, kfifo_peek_n(f, RECSIZE) + RECSIZE)]

\* faulty variant of kfifo_peek_len: the length prefix is counted in
kfifo_peek_len_plus(f) == kfifo_peek_n(f, RECSIZE) + RECSIZE

\* kfifo_peek_len(&test) -> __kfifo_len_r: the length byte at out
kfifo_peek_len(f) == kfifo_peek_n(f, RECSIZE)

\* the destination buffer after `src` was copied to its start
StoreAt(b, src) == [k \in 1..Len(b) |-> IF k <= Len(src) THEN src[k] ELSE b[k]]

----------------------------------------------------------------------------
(* State *)

VARIABLES
    test,        \* struct kfifo_rec_ptr_1 test
    read_lock,   \* mutex read_lock: 0 when free, else the caller holding it
    write_lock,  \* mutex write_lock: 0 when free, else the caller holding it
    ipc,         \* where example_init / testfunc / example_exit stands
    t_i,         \* testfunc: unsigned int i
    t_buf,       \* testfunc: char buf[100]
    t_ret,       \* testfunc: its return value once it has returned
    klog,        \* what printk has written, oldest first
    init_ret,    \* the return value of example_init
    registered,  \* whether the proc entry PROC_FIFO exists
    pc,          \* per caller: where its fifo_read / fifo_write call stands
    arg,         \* per caller: count and the first byte of the user buffer
    loc,         \* per caller: the locals of the call and of the kfifo macro
    res,         \* per caller: the value and the user bytes of its last call
    calls,       \* number of calls started
    recs,        \* history: the payloads committed and not yet consumed
    stream,      \* history: the payloads fifo_write accepted (w) and the
                 \* bytes fifo_read handed out per record it consumed (r)
    last         \* record API run: the last kfifo call and what it returned

vars == <<test, read_lock, write_lock, ipc, t_i, t_buf, t_ret, klog, init_ret,
          registered, pc, arg, loc, res, calls, recs, stream, last>>

Procs == 1..NumProcs

\* how many bytes of a user buffer of len bytes can be read before
\* copy_from_user faults: none, the first half, or all of them (no fault)
UserReadable(len) == {0, len \div 2, len}

\* count arguments of write(2) and read(2) on the proc entry
WriteCounts == {0, 3, 100, 127, 300}

ReadCounts == {0, 2, 200}

\* the bytes of a valid user buffer: base, base+1, ... (mod 256)
UserData(base, len) == [j \in 1..len |-> (base + j - 1) % 256]

\* caller p writes bytes starting at its own base value
BaseOf(p) == 32 * p

NoArg == [count |-> 0, base |-> 0]

NoLoc == [len |-> 0, n |-> 0, free |-> 0, copied |-> 0, ret |-> 0,
          buf |-> <<>>]

NoRes == [op |-> "none", val |-> 0, buf |-> <<>>]

NoLast == [op |-> "none", len |-> 0, ret |-> 0, buf |-> <<>>]

NoStream == [w |-> <<>>, r |-> <<>>]

Init ==
    /\ test = NullFifo
    /\ read_lock = 0
    /\ write_lock = 0
    /\ ipc = "init"
    /\ t_i = 0
    /\ t_buf = [k \in 1..BUF_SIZE |-> 0]  \* never read before it is written
    /\ t_ret = 0
    /\ klog = <<>>
    /\ init_ret = 0
    /\ registered = FALSE
    /\ pc = [p \in Procs |-> "idle"]
    /\ arg = [p \in Procs |-> NoArg]
    /\ loc = [p \in Procs |-> NoLoc]
    /\ res = [p \in Procs |-> NoRes]
    /\ calls = 0
    /\ recs = <<>>
    /\ stream = NoStream
    /\ last = NoLast

gateway_vars == <<read_lock, write_lock, pc, arg, loc, res, calls, stream>>

test_vars == <<t_i, t_buf, t_ret, klog>>

----------------------------------------------------------------------------
(* example_init, lines 154-173 *)

\* ret = kfifo_alloc(&test, FIFO_SIZE, GFP_KERNEL); if (ret) return ret;
\* else testfunc() is entered
ExampleInitAlloc ==
    /\ ipc = "init"
    /\ \/ /\ init_ret' = -ENOMEM
          /\ klog' = Append(klog, <<"error kfifo_alloc">>)
          /\ ipc' = "returned"
          /\ UNCHANGED test
       \/ /\ test' = kfifo_alloc(FIFO_SIZE)
          /\ klog' = Append(klog, <<"record fifo test start">>)
          /\ ipc' = "t_hello"
          /\ UNCHANGED init_ret
    /\ UNCHANGED <<t_i, t_buf, t_ret, registered, recs, last>>
    /\ UNCHANGED gateway_vars

ExampleInitCheck ==
    /\ ipc = "t_done"
    /\ IF t_ret < 0
       THEN /\ test' = kfifo_free(test)
            /\ recs' = <<>>
            /\ init_ret' = -EIO
            /\ ipc' = "returned"
       ELSE /\ ipc' = "proc_create"
            /\ UNCHANGED <<test, recs, init_ret>>
    /\ UNCHANGED <<registered, last>>
    /\ UNCHANGED test_vars
    /\ UNCHANGED gateway_vars

\* if (proc_create(...) == NULL) { kfifo_free(&test); return -ENOMEM; }
\* return 0;
ExampleInitProcCreate ==
    /\ ipc = "proc_create"
    /\ \/ /\ test' = kfifo_free(test)
          /\ recs' = <<>>
          /\ init_ret' = -ENOMEM
          /\ ipc' = "returned"
          /\ UNCHANGED registered
       \/ /\ registered' = TRUE
          /\ init_ret' = 0
          /\ ipc' = "loaded"
          /\ UNCHANGED <<test, recs>>
    /\ UNCHANGED last
    /\ UNCHANGED test_vars
    /\ UNCHANGED gateway_vars

\* example_exit, line 177: remove_proc_entry unlinks the entry at once, so no
\* new call is let in; the calls in progress go on
ExampleExitRemove ==
    /\ ipc = "loaded"
    /\ registered' = FALSE
    /\ ipc' = "exiting"
    /\ UNCHANGED <<test, recs, init_ret, last>>
    /\ UNCHANGED test_vars
    /\ UNCHANGED gateway_vars

\* example_exit, lines 177-178: remove_proc_entry returns when the calls in
\* progress have returned, then kfifo_free(&test)
ExampleExitFree ==
    /\ ipc = "exiting"
    /\ \A p \in Procs : pc[p] = "idle"
    /\ test' = kfifo_free(test)
    /\ recs' = <<>>
    /\ ipc' = "exited"
    /\ UNCHANGED <<init_ret, registered, last>>
    /\ UNCHANGED test_vars
    /\ UNCHANGED gateway_vars

----------------------------------------------------------------------------
(* testfunc, lines 47-98: one action per statement *)

other_vars == <<init_ret, registered, last>>

\* kfifo_in(&test, &hello, sizeof(hello));
TestHello ==
    /\ ipc = "t_hello"
    /\ LET r == kfifo_in(test, hello, Len(hello))
       IN  /\ test' = r.f
           /\ recs' = IF r.f.in = test.in THEN recs ELSE Append(recs, hello)
    /\ ipc' = "t_peeklen"
    /\ UNCHANGED test_vars
    /\ UNCHANGED other_vars
    /\ UNCHANGED gateway_vars

\* printk("fifo peek len: %u\n", kfifo_peek_len(&test));
TestPeekLen ==
    /\ ipc = "t_peeklen"
    /\ \E n \in ByteRead(kfifo_peek_len(test)) :
          klog' = Append(klog, <<"fifo peek len", n>>)
    /\ t_i' = 0
    /\ ipc' = "t_fill"
    /\ UNCHANGED <<test, recs, t_buf, t_ret>>
    /\ UNCHANGED other_vars
    /\ UNCHANGED gateway_vars

\* for (i = 0; i < 10; i++) { memset(buf, 'a' + i, i + 1);
\*                            kfifo_in(&test, buf, i + 1); }
TestFill ==
    /\ ipc = "t_fill"
    /\ t_i < 10
    /\ t_buf' = memset(t_buf, 97 + t_i, t_i + 1)
    /\ LET r == kfifo_in(test, t_buf', t_i + 1)
       IN  /\ test' = r.f
           /\ recs' = IF r.f.in = test.in THEN recs
                      ELSE Append(recs, Take(t_buf', t_i + 1))
    /\ t_i' = t_i + 1
    /\ UNCHANGED <<ipc, t_ret, klog>>
    /\ UNCHANGED other_vars
    /\ UNCHANGED gateway_vars

\* printk("skip 1st element\n"); kfifo_skip(&test);
TestSkip ==
    /\ ipc = "t_fill"
    /\ ~(t_i < 10)
    /\ klog' = Append(klog, <<"skip 1st element">>)
    /\ test' = kfifo_skip(test)
    /\ recs' = IF recs = <<>> THEN recs ELSE Tail(recs)
    /\ ipc' = "t_len"
    /\ UNCHANGED <<t_i, t_buf, t_ret>>
    /\ UNCHANGED other_vars
    /\ UNCHANGED gateway_vars

\* printk("fifo len: %u\n", kfifo_len(&test));
TestLen ==
    /\ ipc = "t_len"
    /\ klog' = Append(klog, <<"fifo len", kfifo_len(test)>>)
    /\ ipc' = "t_peek"
    /\ UNCHANGED <<test, recs, t_i, t_buf, t_ret>>
    /\ UNCHANGED other_vars
    /\ UNCHANGED gateway_vars

\* ret = kfifo_out_peek(&test, buf, sizeof(buf));
\* if (ret) printk("%.*s\n", ret, buf);   i = 0;
TestPeek ==
    /\ ipc = "t_peek"
    /\ LET r == kfifo_out_peek(test, BUF_SIZE)
       IN  /\ t_buf' = StoreAt(t_buf, r.buf)
           /\ klog' = IF r.ret # 0
                      THEN Append(klog, <<"peek", r.ret, printk_s(r.ret, t_buf')>>)
                      ELSE klog
    /\ t_i' = 0
    /\ ipc' = "t_check"
    /\ UNCHANGED <<test, recs, t_ret>>
    /\ UNCHANGED other_vars
    /\ UNCHANGED gateway_vars

\* while (!kfifo_is_empty(&test)) {
\*     ret = kfifo_out(&test, buf, sizeof(buf));  buf[ret] = '\0';
\*     printk("item = %.*s\n", ret, buf);
\*     if (strcmp(buf, expected_result[i++])) { printk(...); return -EIO; } }
\* (ret < sizeof(buf) and i < 10 in every run: the store to buf[ret] and the
\* read of expected_result[i] stay inside their arrays)
TestOut ==
    /\ ipc = "t_check"
    /\ ~kfifo_is_empty(test)
    /\ LET r == kfifo_out(test, BUF_SIZE)
           b == StoreAt(t_buf, r.buf)
       IN  /\ test' = r.f
           /\ recs' = IF recs = <<>> THEN recs ELSE Tail(recs)
           /\ t_buf' = IF r.ret < BUF_SIZE THEN [b EXCEPT ![r.ret + 1] = 0]
                       ELSE b
           /\ IF strcmp(t_buf', expected_result(t_i)) # 0
              THEN /\ klog' = Append(Append(klog,
                                 <<"item", r.ret, printk_s(r.ret, t_buf')>>),
                                 <<"value mismatch: test failed">>)
                   /\ t_ret' = -EIO
                   /\ ipc' = "t_done"
              ELSE /\ klog' = Append(klog,
                                 <<"item", r.ret, printk_s(r.ret, t_buf')>>)
                   /\ UNCHANGED <<t_ret, ipc>>
    /\ t_i' = t_i + 1
    /\ UNCHANGED other_vars
    /\ UNCHANGED gateway_vars

\* if (i != ARRAY_SIZE(expected_result)) { printk(...); return -EIO; }
\* printk("test passed\n"); return 0;
TestEnd ==
    /\ ipc = "t_check"
    /\ kfifo_is_empty(test)
    /\ IF t_i # N_EXPECTED
       THEN /\ klog' = Append(klog, <<"size mismatch: test failed">>)
            /\ t_ret' = -EIO
       ELSE /\ klog' = Append(klog, <<"test passed">>)
            /\ t_ret' = 0
    /\ ipc' = "t_done"
    /\ UNCHANGED <<test, recs, t_i, t_buf>>
    /\ UNCHANGED other_vars
    /\ UNCHANGED gateway_vars

----------------------------------------------------------------------------
(* kfifo_from_user / kfifo_to_user on a record fifo *)

\* faulty variant of the space check of __kfifo_from_user_r: the length
\* byte is not counted
kfifo_from_user_head_nolen(f, count) ==
    LET len  == kfifo_max_r(count, RECSIZE)
        free == kfifo_unused(f)
    IN  IF len > free
        THEN [fits |-> FALSE, len |-> len, free |-> free, f |-> f]
        ELSE [fits |-> TRUE, len |-> len, free |-> free,
              f |-> kfifo_poke_n(f, len, RECSIZE)]

\* __kfifo_from_user_r, up to the store of the record length:
\*   len = __kfifo_max_r(len, recsize);
\*   if (len + recsize > kfifo_unused(fifo)) { *copied = 0; return 0; }
\*   __kfifo_poke_n(fifo, len, recsize);
kfifo_from_user_head(f, count) ==
    LET len  == kfifo_max_r(count, RECSIZE)
        free == kfifo_unused(f)
    IN  IF len + RECSIZE > free
        THEN [fits |-> FALSE, len |-> len, free |-> free, f |-> f]
        ELSE [fits |-> TRUE, len |-> len, free |-> free,
              f |-> kfifo_poke_n(f, len, RECSIZE)]

\* faulty variant of the rest of __kfifo_from_user_r: in advances by the
\* payload only, not by the length byte
kfifo_from_user_copy_norec(f, len, base, ok) ==
    IF ok < len
    THEN [f |-> f, copied |-> 0, ret |-> -EFAULT]
    ELSE LET g == kfifo_copy_in(f, UserData(base, len), len,
                                Add32(f.in, RECSIZE))
         IN  [f |-> [g EXCEPT !.in = Add32(f.in, len)],
              copied |-> len, ret |-> 0]

\* __kfifo_from_user_r, the rest:
\*   ret = kfifo_copy_from_user(fifo, from, len, fifo->in + recsize, copied);
\*   if (ret) { *copied = 0; return -EFAULT; }
\*   fifo->in += len + recsize; return 0;
\* kfifo_copy_from_user calls copy_from_user for the part up to the end of
\* the storage (l bytes) and, if that went well, for the part at its start.
\* With only the first ok < len bytes of the user buffer readable, the
\* copy_from_user that faults has stored the bytes it could read and pads the
\* rest of its part with zero bytes; a part after it is not touched.  A copy
\* of 0 bytes cannot fault.
kfifo_from_user_copy(f, len, base, ok) ==
    IF ok < len
    THEN LET off == Masked(f, Add32(f.in, RECSIZE))
             l   == Min(len, f.mask + 1 - off)
             n   == IF ok < l THEN l ELSE len
             src == [j \in 1..n |->
                        IF j <= ok THEN UserData(base, len)[j] ELSE 0]
         IN  [f |-> kfifo_copy_in(f, src, n, Add32(f.in, RECSIZE)),
              copied |-> 0, ret |-> -EFAULT]
    ELSE LET g == kfifo_copy_in(f, UserData(base, len), len,
                                Add32(f.in, RECSIZE))
         IN  [f |-> [g EXCEPT !.in = Add32(f.in, len + RECSIZE)],
              copied |-> len, ret |-> 0]

\* __kfifo_to_user_r, up to the choice of the length:
\*   if (fifo->in == fifo->out) { *copied = 0; return 0; }
\*   n = __kfifo_peek_n(fifo, recsize); if (len > n) len = n;
kfifo_to_user_head(f, count) ==
    IF f.in = f.out
    THEN [empty |-> TRUE, n |-> 0, len |-> 0]
    ELSE LET n == kfifo_peek_n(f, RECSIZE)
         IN  [empty |-> FALSE, n |-> n, len |-> IF count > n THEN n ELSE count]

\* faulty variant of the rest of __kfifo_to_user_r: the copy starts one byte
\* behind the first payload byte
kfifo_to_user_copy_shift(f, len, n, bad) ==
    IF bad /\ len > 0
    THEN [f |-> f, copied |-> 0, ret |-> -EFAULT, buf |-> <<>>]
    ELSE [f |-> [f EXCEPT !.out = Add32(f.out, n + RECSIZE)],
          copied |-> len, ret |-> 0,
          buf |-> kfifo_copy_out(f, len, Add32(f.out, RECSIZE + 1))]

\* faulty variant of the rest of __kfifo_to_user_r: the copy starts at the
\* length byte, as a copy of raw bytes from out does
kfifo_to_user_copy_noskip(f, len, n, bad) ==
    IF bad /\ len > 0
    THEN [f |-> f, copied |-> 0, ret |-> -EFAULT, buf |-> <<>>]
    ELSE [f |-> [f EXCEPT !.out = Add32(f.out, n + RECSIZE)],
          copied |-> len, ret |-> 0,
          buf |-> kfifo_copy_out(f, len, f.out)]

\* faulty variant of the rest of __kfifo_to_user_r: out advances by the bytes
\* copied, as a byte stream fifo does, not by the whole record
kfifo_to_user_copy_raw(f, len, n, bad) ==
    IF bad /\ len > 0
    THEN [f |-> f, copied |-> 0, ret |-> -EFAULT, buf |-> <<>>]
    ELSE [f |-> [f EXCEPT !.out = Add32(f.out, len + RECSIZE)],
          copied |-> len, ret |-> 0,
          buf |-> kfifo_copy_out(f, len, Add32(f.out, RECSIZE))]

\* __kfifo_to_user_r, the rest:
\*   ret = kfifo_copy_to_user(fifo, to, len, fifo->out + recsize, copied);
\*   if (ret) { *copied = 0; return -EFAULT; }
\*   fifo->out += n + recsize; return 0;
kfifo_to_user_copy(f, len, n, bad) ==
    IF bad /\ len > 0
    THEN [f |-> f, copied |-> 0, ret |-> -EFAULT, buf |-> <<>>]
    ELSE [f |-> [f EXCEPT !.out = Add32(f.out, n + RECSIZE)],
          copied |-> len, ret |-> 0,
          buf |-> kfifo_copy_out(f, len, Add32(f.out, RECSIZE))]

----------------------------------------------------------------------------
(* fifo_write, lines 100-118 *)

init_vars == <<ipc, init_ret, registered, last>>

\* faulty variant of the mutex: it can always be taken
mutex_is_free_always(lock) == TRUE

\* a mutex can be taken when no caller holds it
mutex_is_free(lock) == lock = 0

\* faulty variants of the lock fifo_write takes: no lock at all, and one lock
\* shared with fifo_read
write_side_free_none == TRUE

write_side_free_shared == mutex_is_free(write_lock) /\ mutex_is_free(read_lock)

\* the lock fifo_write takes, and the lock fifo_read takes
write_side_free == mutex_is_free(write_lock)

read_side_free == mutex_is_free(read_lock)

\* write(2) on the proc entry enters fifo_write(file, buf, count, ppos)
FifoWriteCall(p) ==
    /\ registered
    /\ pc[p] = "idle"
    /\ calls < MaxCalls
    /\ \E count \in WriteCounts :
          arg' = [arg EXCEPT ![p] = [count |-> count, base |-> BaseOf(p)]]
    /\ pc' = [pc EXCEPT ![p] = "w_lock"]
    /\ loc' = [loc EXCEPT ![p] = NoLoc]
    /\ res' = [res EXCEPT ![p] = NoRes]
    /\ calls' = calls + 1
    /\ UNCHANGED <<test, recs, read_lock, write_lock>>
    /\ UNCHANGED test_vars
    /\ UNCHANGED init_vars
    /\ UNCHANGED stream

\* mutex_lock_interruptible(&write_lock) returns 0: the lock is taken
FifoWriteLock(p) ==
    /\ pc[p] = "w_lock"
    /\ write_side_free
    /\ write_lock' = p
    /\ pc' = [pc EXCEPT ![p] = "w_from_user"]
    /\ UNCHANGED <<test, recs, read_lock, arg, loc, res, calls>>
    /\ UNCHANGED test_vars
    /\ UNCHANGED init_vars
    /\ UNCHANGED stream

\* faulty variant of the interrupted fifo_write: it leaves through
\* mutex_unlock(&write_lock)
FifoWriteInterrupted_unlock(p) ==
    /\ pc[p] = "w_lock"
    /\ ~write_side_free
    /\ write_lock' = 0
    /\ res' = [res EXCEPT ![p] = [op |-> "write", val |-> -ERESTARTSYS,
                                  buf |-> <<>>]]
    /\ pc' = [pc EXCEPT ![p] = "idle"]
    /\ UNCHANGED <<test, recs, read_lock, arg, loc, calls>>
    /\ UNCHANGED test_vars
    /\ UNCHANGED init_vars
    /\ UNCHANGED stream

\* mutex_lock_interruptible(&write_lock) is interrupted by a signal while it
\* waits for the holder: return -ERESTARTSYS;
FifoWriteInterrupted(p) ==
    /\ pc[p] = "w_lock"
    /\ ~write_side_free
    /\ res' = [res EXCEPT ![p] = [op |-> "write", val |-> -ERESTARTSYS,
                                  buf |-> <<>>]]
    /\ pc' = [pc EXCEPT ![p] = "idle"]
    /\ UNCHANGED <<test, recs, read_lock, write_lock, arg, loc, calls>>
    /\ UNCHANGED test_vars
    /\ UNCHANGED init_vars
    /\ UNCHANGED stream

\* faulty variant of the space check in fifo_write: a record that does not
\* fit is reported as an error
FifoWriteHead_full_error(p) ==
    /\ pc[p] = "w_from_user"
    /\ LET h == kfifo_from_user_head(test, arg[p].count)
       IN  /\ test' = h.f
           /\ loc' = [loc EXCEPT ![p].len = h.len, ![p].free = h.free,
                                 ![p].copied = 0,
                                 ![p].ret = IF h.fits THEN 0 ELSE -EFAULT]
           /\ pc' = [pc EXCEPT ![p] = IF h.fits THEN "w_copy" ELSE "w_unlock"]
    /\ UNCHANGED <<recs, read_lock, write_lock, arg, res, calls>>
    /\ UNCHANGED test_vars
    /\ UNCHANGED init_vars
    /\ UNCHANGED stream

\* ret = kfifo_from_user(&test, buf, count, &copied): the space check and the
\* record length
FifoWriteHead(p) ==
    /\ pc[p] = "w_from_user"
    /\ LET h == kfifo_from_user_head(test, arg[p].count)
       IN  /\ test' = h.f
           /\ loc' = [loc EXCEPT ![p].len = h.len, ![p].free = h.free,
                                 ![p].copied = 0, ![p].ret = 0]
           /\ pc' = [pc EXCEPT ![p] = IF h.fits THEN "w_copy" ELSE "w_unlock"]
    /\ UNCHANGED <<recs, read_lock, write_lock, arg, res, calls>>
    /\ UNCHANGED test_vars
    /\ UNCHANGED init_vars
    /\ UNCHANGED stream

\* kfifo_from_user: the copy from the user buffer (readable or not) and the
\* update of in
FifoWriteCopy(p) ==
    /\ pc[p] = "w_copy"
    /\ \E ok \in UserReadable(loc[p].len) :
       LET c == kfifo_from_user_copy(test, loc[p].len, arg[p].base, ok)
       IN  /\ test' = c.f
           /\ loc' = [loc EXCEPT ![p].copied = c.copied, ![p].ret = c.ret]
           /\ recs' = IF c.f.in = test.in THEN recs
                      ELSE Append(recs, UserData(arg[p].base, loc[p].len))
           /\ stream' = IF c.f.in = test.in THEN stream
                        ELSE [stream EXCEPT !.w =
                                 Append(@, UserData(arg[p].base, loc[p].len))]
    /\ pc' = [pc EXCEPT ![p] = "w_unlock"]
    /\ UNCHANGED <<read_lock, write_lock, arg, res, calls>>
    /\ UNCHANGED test_vars
    /\ UNCHANGED init_vars

\* faulty variant of the end of fifo_write: the error is returned before
\* mutex_unlock(&write_lock)
FifoWriteUnlock_leak(p) ==
    /\ pc[p] = "w_unlock"
    /\ write_lock' = IF loc[p].ret # 0 THEN write_lock ELSE 0
    /\ res' = [res EXCEPT ![p] =
                  [op |-> "write",
                   val |-> IF loc[p].ret # 0 THEN loc[p].ret ELSE loc[p].copied,
                   buf |-> <<>>]]
    /\ pc' = [pc EXCEPT ![p] = "idle"]
    /\ UNCHANGED <<test, recs, read_lock, arg, loc, calls>>
    /\ UNCHANGED test_vars
    /\ UNCHANGED init_vars
    /\ UNCHANGED stream

\* mutex_unlock(&write_lock); if (ret) return ret; return copied;
FifoWriteUnlock(p) ==
    /\ pc[p] = "w_unlock"
    /\ write_lock' = 0
    /\ res' = [res EXCEPT ![p] =
                  [op |-> "write",
                   val |-> IF loc[p].ret # 0 THEN loc[p].ret ELSE loc[p].copied,
                   buf |-> <<>>]]
    /\ pc' = [pc EXCEPT ![p] = "idle"]
    /\ UNCHANGED <<test, recs, read_lock, arg, loc, calls>>
    /\ UNCHANGED test_vars
    /\ UNCHANGED init_vars
    /\ UNCHANGED stream

----------------------------------------------------------------------------
(* fifo_read, lines 120-138 *)

\* read(2) on the proc entry enters fifo_read(file, buf, count, ppos)
FifoReadCall(p) ==
    /\ registered
    /\ pc[p] = "idle"
    /\ calls < MaxCalls
    /\ \E count \in ReadCounts :
          arg' = [arg EXCEPT ![p] = [count |-> count, base |-> 0]]
    /\ pc' = [pc EXCEPT ![p] = "r_lock"]
    /\ loc' = [loc EXCEPT ![p] = NoLoc]
    /\ res' = [res EXCEPT ![p] = NoRes]
    /\ calls' = calls + 1
    /\ UNCHANGED <<test, recs, read_lock, write_lock>>
    /\ UNCHANGED test_vars
    /\ UNCHANGED init_vars
    /\ UNCHANGED stream

\* mutex_lock_interruptible(&read_lock) returns 0: the lock is taken
FifoReadLock(p) ==
    /\ pc[p] = "r_lock"
    /\ read_side_free
    /\ read_lock' = p
    /\ pc' = [pc EXCEPT ![p] = "r_to_user"]
    /\ UNCHANGED <<test, recs, write_lock, arg, loc, res, calls>>
    /\ UNCHANGED test_vars
    /\ UNCHANGED init_vars
    /\ UNCHANGED stream

\* mutex_lock_interruptible(&read_lock) is interrupted by a signal while it
\* waits for the holder: return -ERESTARTSYS;
FifoReadInterrupted(p) ==
    /\ pc[p] = "r_lock"
    /\ ~read_side_free
    /\ res' = [res EXCEPT ![p] = [op |-> "read", val |-> -ERESTARTSYS,
                                  buf |-> <<>>]]
    /\ pc' = [pc EXCEPT ![p] = "idle"]
    /\ UNCHANGED <<test, recs, read_lock, write_lock, arg, loc, calls>>
    /\ UNCHANGED test_vars
    /\ UNCHANGED init_vars
    /\ UNCHANGED stream

\* ret = kfifo_to_user(&test, buf, count, &copied): the empty check and the
\* length of the record at out
FifoReadHead(p) ==
    /\ pc[p] = "r_to_user"
    /\ LET h == kfifo_to_user_head(test, arg[p].count)
       IN  /\ loc' = [loc EXCEPT ![p].len = h.len, ![p].n = h.n,
                                 ![p].copied = 0, ![p].ret = 0]
           /\ pc' = [pc EXCEPT ![p] = IF h.empty THEN "r_unlock" ELSE "r_copy"]
    /\ UNCHANGED <<test, recs, read_lock, write_lock, arg, res, calls>>
    /\ UNCHANGED test_vars
    /\ UNCHANGED init_vars
    /\ UNCHANGED stream

\* kfifo_to_user: the copy to the user buffer (writable or not) and the
\* update of out
FifoReadCopy(p) ==
    /\ pc[p] = "r_copy"
    /\ \E bad \in BOOLEAN :
       LET c == kfifo_to_user_copy(test, loc[p].len, loc[p].n, bad)
       IN  /\ test' = c.f
           /\ loc' = [loc EXCEPT ![p].copied = c.copied, ![p].ret = c.ret,
                                 ![p].buf = c.buf]
           /\ recs' = IF c.f.out = test.out \/ recs = <<>> THEN recs
                      ELSE Tail(recs)
           /\ stream' = IF c.f.out = test.out THEN stream
                        ELSE [stream EXCEPT !.r = Append(@, c.buf)]
    /\ pc' = [pc EXCEPT ![p] = "r_unlock"]
    /\ UNCHANGED <<read_lock, write_lock, arg, res, calls>>
    /\ UNCHANGED test_vars
    /\ UNCHANGED init_vars

\* mutex_unlock(&read_lock); if (ret) return ret; return copied;
FifoReadUnlock(p) ==
    /\ pc[p] = "r_unlock"
    /\ read_lock' = 0
    /\ res' = [res EXCEPT ![p] =
                  [op |-> "read",
                   val |-> IF loc[p].ret # 0 THEN loc[p].ret ELSE loc[p].copied,
                   buf |-> loc[p].buf]]
    /\ pc' = [pc EXCEPT ![p] = "idle"]
    /\ UNCHANGED <<test, recs, write_lock, arg, loc, calls>>
    /\ UNCHANGED test_vars
    /\ UNCHANGED init_vars
    /\ UNCHANGED stream

----------------------------------------------------------------------------
(* The module: initialisation, self test, then calls from user space *)

Next ==
    \/ ExampleInitAlloc
    \/ TestHello
    \/ TestPeekLen
    \/ TestFill
    \/ TestSkip
    \/ TestLen
    \/ TestPeek
    \/ TestOut
    \/ TestEnd
    \/ ExampleInitCheck
    \/ ExampleInitProcCreate
    \/ ExampleExitRemove
    \/ ExampleExitFree
    \/ \E p \in Procs : FifoWriteCall(p)
    \/ \E p \in Procs : FifoWriteLock(p)
    \/ \E p \in Procs : FifoWriteInterrupted(p)
    \/ \E p \in Procs : FifoWriteHead(p)
    \/ \E p \in Procs : FifoWriteCopy(p)
    \/ \E p \in Procs : FifoWriteUnlock(p)
    \/ \E p \in Procs : FifoReadCall(p)
    \/ \E p \in Procs : FifoReadLock(p)
    \/ \E p \in Procs : FifoReadInterrupted(p)
    \/ \E p \in Procs : FifoReadHead(p)
    \/ \E p \in Procs : FifoReadCopy(p)
    \/ \E p \in Procs : FifoReadUnlock(p)

Spec == Init /\ [][Next]_vars

(* The module with one caller that writes short and long records and the *)
(* other callers reading with small and large buffers, over longer runs;   *)
(* with a single writer no wait for write_lock is there to be interrupted  *)

\* the caller that writes, and the callers that read
Writers == {p \in Procs : p = 1}

Readers == Procs \ Writers

StreamWriteCounts == {3, 100}

StreamReadCounts == {2, 200}

\* write(2) on the proc entry enters fifo_write(file, buf, count, ppos)
StreamWriteCall(p) ==
    /\ registered
    /\ pc[p] = "idle"
    /\ calls < MaxStreamCalls
    /\ \E count \in StreamWriteCounts :
          arg' = [arg EXCEPT ![p] = [count |-> count, base |-> BaseOf(p)]]
    /\ pc' = [pc EXCEPT ![p] = "w_lock"]
    /\ loc' = [loc EXCEPT ![p] = NoLoc]
    /\ res' = [res EXCEPT ![p] = NoRes]
    /\ calls' = calls + 1
    /\ UNCHANGED <<test, recs, read_lock, write_lock>>
    /\ UNCHANGED test_vars
    /\ UNCHANGED init_vars
    /\ UNCHANGED stream

\* read(2) on the proc entry enters fifo_read(file, buf, count, ppos)
StreamReadCall(p) ==
    /\ registered
    /\ pc[p] = "idle"
    /\ calls < MaxStreamCalls
    /\ \E count \in StreamReadCounts :
          arg' = [arg EXCEPT ![p] = [count |-> count, base |-> 0]]
    /\ pc' = [pc EXCEPT ![p] = "r_lock"]
    /\ loc' = [loc EXCEPT ![p] = NoLoc]
    /\ res' = [res EXCEPT ![p] = NoRes]
    /\ calls' = calls + 1
    /\ UNCHANGED <<test, recs, read_lock, write_lock>>
    /\ UNCHANGED test_vars
    /\ UNCHANGED init_vars
    /\ UNCHANGED stream

NextStream ==
    \/ ExampleInitAlloc
    \/ TestHello
    \/ TestPeekLen
    \/ TestFill
    \/ TestSkip
    \/ TestLen
    \/ TestPeek
    \/ TestOut
    \/ TestEnd
    \/ ExampleInitCheck
    \/ ExampleInitProcCreate
    \/ ExampleExitRemove
    \/ ExampleExitFree
    \/ \E p \in Writers : StreamWriteCall(p)
    \/ \E p \in Procs : FifoWriteLock(p)
    \/ \E p \in Procs : FifoWriteHead(p)
    \/ \E p \in Procs : FifoWriteCopy(p)
    \/ \E p \in Procs : FifoWriteUnlock(p)
    \/ \E p \in Readers : StreamReadCall(p)
    \/ \E p \in Procs : FifoReadLock(p)
    \/ \E p \in Procs : FifoReadHead(p)
    \/ \E p \in Procs : FifoReadCopy(p)
    \/ \E p \in Procs : FifoReadUnlock(p)

SpecStream == Init /\ [][NextStream]_vars

(* The module when no signal interrupts a wait for a lock, under fair      *)
(* scheduling: a caller that is running takes its next step, and a caller  *)
(* waiting in mutex_lock_interruptible gets the mutex if it is released    *)
(* again and again.                                                        *)
NextFair ==
    \/ ExampleInitAlloc
    \/ TestHello
    \/ TestPeekLen
    \/ TestFill
    \/ TestSkip
    \/ TestLen
    \/ TestPeek
    \/ TestOut
    \/ TestEnd
    \/ ExampleInitCheck
    \/ ExampleInitProcCreate
    \/ ExampleExitRemove
    \/ ExampleExitFree
    \/ \E p \in Procs : FifoWriteCall(p)
    \/ \E p \in Procs : FifoWriteLock(p)
    \/ \E p \in Procs : FifoWriteHead(p)
    \/ \E p \in Procs : FifoWriteCopy(p)
    \/ \E p \in Procs : FifoWriteUnlock(p)
    \/ \E p \in Procs : FifoReadCall(p)
    \/ \E p \in Procs : FifoReadLock(p)
    \/ \E p \in Procs : FifoReadHead(p)
    \/ \E p \in Procs : FifoReadCopy(p)
    \/ \E p \in Procs : FifoReadUnlock(p)

\* the steps of a caller that holds its lock
Running(p) ==
    \/ FifoWriteHead(p)
    \/ FifoWriteCopy(p)
    \/ FifoWriteUnlock(p)
    \/ FifoReadHead(p)
    \/ FifoReadCopy(p)
    \/ FifoReadUnlock(p)

Fairness ==
    \A p \in Procs :
       /\ WF_vars(Running(p))
       /\ SF_vars(FifoWriteLock(p))
       /\ SF_vars(FifoReadLock(p))

SpecFair == Init /\ [][NextFair]_vars /\ Fairness

----------------------------------------------------------------------------
(* The record API on its own: kfifo_in, kfifo_out, kfifo_out_peek,         *)
(* kfifo_skip and kfifo_peek_len called in any order on the fifo that      *)
(* example_init allocates, with any of a few payloads and buffer sizes.    *)

\* in = out when the run starts: a fresh fifo, and an empty one whose
\* counters are about to wrap (after zero length records went through it)
StartPos == {0, UINT_MOD - 30}

\* the fifo when the run starts: as kfifo_alloc returns it, or, after s
\* records of length 0 were put in and taken out, with the length byte 0
\* stored everywhere
StartFifo(s) ==
    IF s = 0 THEN kfifo_alloc(FIFO_SIZE)
    ELSE [kfifo_alloc(FIFO_SIZE) EXCEPT
             !.data = [k \in 0..(FIFO_SIZE - 1) |-> 0], !.in = s, !.out = s]

\* payload lengths handed to kfifo_in
InLens == {0, 1, 63, 127, 128}

\* first bytes of the payloads handed to kfifo_in
InBases == {65, 200}

\* sizes of the buffer handed to kfifo_out and kfifo_out_peek
OutSizes == {0, 2, 200}

InitApi ==
    /\ \E s \in StartPos : test = StartFifo(s)
    /\ read_lock = 0
    /\ write_lock = 0
    /\ ipc = "api"
    /\ t_i = 0
    /\ t_buf = [k \in 1..BUF_SIZE |-> 0]
    /\ t_ret = 0
    /\ klog = <<>>
    /\ init_ret = 0
    /\ registered = FALSE
    /\ pc = [p \in Procs |-> "idle"]
    /\ arg = [p \in Procs |-> NoArg]
    /\ loc = [p \in Procs |-> NoLoc]
    /\ res = [p \in Procs |-> NoRes]
    /\ calls = 0
    /\ recs = <<>>
    /\ stream = NoStream
    /\ last = NoLast

api_frame == <<read_lock, write_lock, ipc, t_i, t_buf, t_ret, klog, init_ret,
               registered, pc, arg, loc, res, stream>>

\* ret = kfifo_in(&test, src, len)
ApiIn ==
    /\ calls < MaxOps
    /\ \E len \in InLens, base \in InBases :
          LET src == UserData(base, len)
              r   == kfifo_in(test, src, len)
          IN  /\ test' = r.f
              /\ recs' = IF r.f.in = test.in THEN recs ELSE Append(recs, src)
              /\ last' = [op |-> "in", len |-> len, ret |-> r.ret,
                          buf |-> src]
    /\ calls' = calls + 1
    /\ UNCHANGED api_frame

\* ret = kfifo_out(&test, buf, size)
ApiOut ==
    /\ calls < MaxOps
    /\ \E size \in OutSizes :
          LET r == kfifo_out(test, size)
          IN  /\ test' = r.f
              /\ recs' = IF r.f.out = test.out THEN recs ELSE Tail(recs)
              /\ last' = [op |-> "out", len |-> size, ret |-> r.ret,
                          buf |-> r.buf]
    /\ calls' = calls + 1
    /\ UNCHANGED api_frame

\* ret = kfifo_out_peek(&test, buf, size)
ApiOutPeek ==
    /\ calls < MaxOps
    /\ \E size \in OutSizes :
          LET r == kfifo_out_peek(test, size)
          IN  /\ test' = r.f
              /\ last' = [op |-> "out_peek", len |-> size, ret |-> r.ret,
                          buf |-> r.buf]
    /\ calls' = calls + 1
    /\ UNCHANGED recs
    /\ UNCHANGED api_frame

\* kfifo_skip(&test), called as testfunc calls it: on a fifo that holds a
\* record
ApiSkip ==
    /\ calls < MaxOps
    /\ ~kfifo_is_empty(test)
    /\ test' = kfifo_skip(test)
    /\ recs' = Tail(recs)
    /\ last' = [op |-> "skip", len |-> 0, ret |-> 0, buf |-> <<>>]
    /\ calls' = calls + 1
    /\ UNCHANGED api_frame

\* ret = kfifo_peek_len(&test)
ApiPeekLen ==
    /\ calls < MaxOps
    /\ \E n \in ByteRead(kfifo_peek_len(test)) :
          last' = [op |-> "peek_len", len |-> 0, ret |-> n, buf |-> <<>>]
    /\ calls' = calls + 1
    /\ UNCHANGED <<test, recs>>
    /\ UNCHANGED api_frame

NextApi ==
    \/ ApiIn
    \/ ApiOut
    \/ ApiOutPeek
    \/ ApiSkip
    \/ ApiPeekLen

SpecApi == InitApi /\ [][NextApi]_vars

----------------------------------------------------------------------------
(* Reading the storage back: the records held between out and in *)

\* the records found by walking `left` live bytes from offset off: a length
\* byte, then that many payload bytes; the payload <<-1>> stands for bytes
\* that are no whole record
RECURSIVE Walk(_, _, _)
Walk(f, off, left) ==
    IF left = 0 THEN <<>>
    ELSE LET n == f.data[Masked(f, off)]
         IN  IF n + RECSIZE > left THEN << <<-1>> >>
             ELSE <<kfifo_copy_out(f, n, off + RECSIZE)>>
                  \o Walk(f, off + RECSIZE + n, left - RECSIZE - n)

Stored(f) ==
    IF kfifo_len(f) > f.mask + 1 THEN << <<-1>> >>
    ELSE IF kfifo_len(f) = 0 THEN <<>>
    ELSE Walk(f, f.out, kfifo_len(f))

\* the k-th record sits across the end of the storage
Wrapped(f) == Masked(f, f.in) < Masked(f, f.out)

NewCall == calls' = calls + 1

----------------------------------------------------------------------------
(* C1: round trip.  Whatever was inserted and accepted comes out of        *)
(* kfifo_out unchanged and oldest first: a kfifo_out with a buffer at      *)
(* least as large as the oldest payload returns exactly that payload and   *)
(* its length, also when the record lies across the end of the storage     *)
(* or the counters wrap; on a fifo with no record it returns 0.            *)
C1_RoundTrip ==
    [][(NewCall /\ last'.op = "out") =>
          IF recs = <<>>
          THEN last'.ret = 0 /\ test' = test
          ELSE (last'.len >= Len(Head(recs))) =>
                  /\ last'.ret = Len(Head(recs))
                  /\ last'.buf = Head(recs)
                  /\ recs' = Tail(recs)]_vars

\* two records went in and came out again, the second one stored across the
\* end of the storage
C1_Witness ==
    /\ last.op = "out"
    /\ last.ret = 63
    /\ calls = 4
    /\ kfifo_is_empty(test)
    /\ Masked(test, test.out) > 0
    /\ Masked(test, test.out) < 63

(* C2: a kfifo_in whose payload plus length byte exceeds the free space    *)
(* returns 0 and leaves data, in and out as they were; any other kfifo_in  *)
(* appends the whole record (length byte and payload) and nothing else.    *)
C2_InsertAllOrNothing ==
    [][(NewCall /\ last'.op = "in") =>
          IF last'.len + RECSIZE > FIFO_SIZE - kfifo_len(test)
          THEN last'.ret = 0 /\ test' = test
          ELSE /\ last'.ret = last'.len
               /\ test'.out = test.out
               /\ kfifo_len(test') = kfifo_len(test) + RECSIZE + last'.len
               /\ Stored(test') = Append(Stored(test), last'.buf)]_vars

\* a payload of 127 bytes was refused by a fifo that had 64 bytes free
C2_Witness ==
    /\ last.op = "in"
    /\ last.len = 127
    /\ last.ret = 0
    /\ kfifo_len(test) = 64

----------------------------------------------------------------------------
(* Claims about fifo_write and fifo_read *)

InWrite == {"w_from_user", "w_copy", "w_unlock"}

InRead == {"r_to_user", "r_copy", "r_unlock"}

\* caller p leaves kfifo_from_user without an error
WriteDone(p) ==
    \/ pc[p] = "w_from_user" /\ pc'[p] = "w_unlock"
    \/ pc[p] = "w_copy" /\ pc'[p] = "w_unlock" /\ loc'[p].ret = 0

(* C3 as stated: a write that finds fewer free bytes than its data writes  *)
(* exactly the free bytes; in general it stores and returns                *)
(* min(count, C - length) bytes.                                           *)
C3_Original ==
    [][\A p \in Procs :
          WriteDone(p) =>
              loc'[p].copied = Min(arg[p].count, FIFO_SIZE - kfifo_len(test))
      ]_vars

(* C3 amended: fifo_write stores its data as one record or not at all.     *)
(* With len = min(count, 255): when len + 1 exceeds the free space (a full *)
(* fifo included) the call stores nothing, leaves in and out as they were  *)
(* and returns 0; otherwise it appends the length byte and the first len   *)
(* bytes of the data, in advances by len + 1 and the call returns len;    *)
(* a user buffer that cannot be read makes it return -EFAULT with in, out  *)
(* and the stored records unchanged.  The call never returns more than     *)
(* count.                                                                  *)
C3_WriteWholeRecord ==
    [][\A p \in Procs :
          /\ (pc[p] = "w_from_user" /\ pc'[p] = "w_unlock") =>
                /\ Min(arg[p].count, 255) + RECSIZE
                      > FIFO_SIZE - kfifo_len(test)
                /\ test' = test
                /\ loc'[p].copied = 0
                /\ loc'[p].ret = 0
          /\ (pc[p] = "w_from_user" /\ pc'[p] = "w_copy") =>
                /\ Min(arg[p].count, 255) + RECSIZE
                      <= FIFO_SIZE - kfifo_len(test)
                /\ test'.in = test.in
                /\ test'.out = test.out
          /\ (pc[p] = "w_copy" /\ pc'[p] = "w_unlock" /\ loc'[p].ret = 0) =>
                /\ loc'[p].copied = Min(arg[p].count, 255)
                /\ test'.in = Add32(test.in, loc'[p].copied + RECSIZE)
                /\ test'.out = test.out
                /\ Stored(test') =
                      Append(Stored(test),
                             UserData(arg[p].base, loc'[p].copied))
          /\ (pc[p] = "w_copy" /\ pc'[p] = "w_unlock" /\ loc'[p].ret # 0) =>
                /\ loc'[p].ret = -EFAULT
                /\ test'.in = test.in
                /\ test'.out = test.out
                /\ Stored(test') = Stored(test)
          /\ (pc[p] = "w_unlock" /\ pc'[p] = "idle" /\ loc[p].ret = 0) =>
                /\ res'[p].val = loc[p].copied
                /\ res'[p].val <= arg[p].count
                /\ test' = test
      ]_vars

\* a write of 100 bytes has returned 0 because only part of them would fit
C3_Witness ==
    \E p \in Procs :
        /\ pc[p] = "idle"
        /\ res[p].op = "write"
        /\ res[p].val = 0
        /\ arg[p].count = 100
        /\ loc[p].free > 0
        /\ loc[p].free < 100

(* C4: the bytes of two fifo_write calls never interleave.  In every state *)
(* the bytes between out and in are, one after another, the records of the *)
(* write calls that completed: each a length byte followed by the bytes of *)
(* that one call, in order, in one span (modulo the size of the storage).  *)
C4_WritesContiguous == Stored(test) = recs

\* the data of two callers is stored, one record after the other
C4_Witness ==
    /\ Len(recs) = 2
    /\ \E p, q \in Procs :
          /\ p # q
          /\ res[p].op = "write" /\ res[p].val > 0
          /\ res[q].op = "write" /\ res[q].val > 0
          /\ pc[p] = "idle" /\ pc[q] = "idle"

(* C5: a call whose wait for the lock is interrupted returns -ERESTARTSYS  *)
(* straight from the wait: kfifo_from_user / kfifo_to_user is not called,  *)
(* test is unchanged byte for byte and both locks are as they were.        *)
C5_InterruptedNoEffect ==
    [][\A p \in Procs :
          /\ (pc[p] \in {"w_lock", "r_lock"} /\ pc'[p] = "idle") =>
                /\ res'[p].val = -ERESTARTSYS
                /\ test' = test
                /\ recs' = recs
                /\ read_lock' = read_lock
                /\ write_lock' = write_lock
                /\ read_lock # p /\ write_lock # p
          /\ (res'[p].val = -ERESTARTSYS /\ res[p].val # -ERESTARTSYS) =>
                pc[p] \in {"w_lock", "r_lock"}
      ]_vars

\* a write was interrupted while another caller was in the middle of
\* kfifo_from_user
C5_Witness ==
    \E p, q \in Procs :
        /\ pc[p] = "idle"
        /\ res[p].op = "write"
        /\ res[p].val = -ERESTARTSYS
        /\ pc[q] = "w_copy"
        /\ write_lock = q

(* C6: a reader never meets a truncated or misaligned record.  Whenever    *)
(* the fifo is not empty, the byte at out is the length of a record whose  *)
(* length byte and payload all lie within the in - out live bytes.         *)
C6_HeadRecordComplete ==
    /\ kfifo_len(test) <= test.mask + 1
    /\ ~kfifo_is_empty(test) =>
          kfifo_peek_n(test, RECSIZE) + RECSIZE <= kfifo_len(test)

\* a reader is copying out a record of 100 bytes that a write stored across
\* the end of the storage
C6_Witness ==
    /\ registered
    /\ ~kfifo_is_empty(test)
    /\ Wrapped(test)
    /\ \E q \in Procs : pc[q] = "r_copy" /\ loc[q].n = 100

(* C7: mutual exclusion per side.  At most one caller is between taking    *)
(* and releasing write_lock, at most one between taking and releasing      *)
(* read_lock, and it is the caller the lock names.                         *)
C7_MutualExclusion ==
    /\ Cardinality({p \in Procs : pc[p] \in InWrite}) <= 1
    /\ Cardinality({p \in Procs : pc[p] \in InRead}) <= 1
    /\ \A p \in Procs : pc[p] \in InWrite <=> write_lock = p
    /\ \A p \in Procs : pc[p] \in InRead <=> read_lock = p

\* one writer is inside while another waits for write_lock
C7_Witness ==
    \E p, q \in Procs :
        /\ p # q
        /\ pc[p] = "w_copy"
        /\ pc[q] = "w_lock"

(* C8: reader and writer do not block each other.  A caller waiting for    *)
(* write_lock can take it whenever write_lock is free, whoever holds       *)
(* read_lock, and a caller waiting for read_lock can take it whenever      *)
(* read_lock is free, whoever holds write_lock.                            *)
C8_SidesIndependent ==
    \A p \in Procs :
        /\ (pc[p] = "w_lock" /\ write_lock = 0) => ENABLED FifoWriteLock(p)
        /\ (pc[p] = "r_lock" /\ read_lock = 0) => ENABLED FifoReadLock(p)

\* a reader and a writer are inside kfifo_to_user and kfifo_from_user at the
\* same time
C8_Witness ==
    \E p, q \in Procs :
        /\ pc[p] = "w_copy" /\ write_lock = p
        /\ pc[q] = "r_to_user" /\ read_lock = q

----------------------------------------------------------------------------
(* Claims about example_init and testfunc *)

Logged(e) == \E k \in 1..Len(klog) : klog[k] = e

IsItem(e) == e[1] = "item"

Items == SelectSeq(klog, IsItem)

(* C9: the self test gates the proc entry.  Not settled: testfunc runs    *)
(* alone on a fifo that example_init has just allocated, and every        *)
(* behaviour has it return 0, so the branch of example_init for a failing *)
(* testfunc (ExampleInitCheck with t_ret < 0) is never taken.              *)

(* C10: the self test scenario.  After the hello record and the ten        *)
(* records "a" .. "jjjjjjjjjj" are in and one record is skipped, the peek  *)
(* reports length 1 and "a" and removes nothing; then exactly ten          *)
(* kfifo_out calls empty the fifo, the k-th returning the k-th expected    *)
(* string, and testfunc returns 0.                                         *)
C10_HarnessScenario ==
    /\ ipc \in {"t_check", "t_done"} =>
          /\ Logged(<<"peek", 1, <<97>>>>)
          /\ Len(Items) <= N_EXPECTED
          /\ \A k \in 1..Len(Items) :
                Items[k] = <<"item", k, expected_result(k - 1)>>
    /\ (ipc = "t_check" /\ t_i = 0) =>
          /\ kfifo_len(test) = 65
          /\ Len(recs) = N_EXPECTED
          /\ Head(recs) = <<97>>
    /\ ipc = "t_check" =>
          /\ t_i = Len(Items)
          /\ kfifo_is_empty(test) <=> t_i = N_EXPECTED
    /\ ipc = "t_done" =>
          /\ t_ret = 0
          /\ Len(Items) = N_EXPECTED
          /\ kfifo_is_empty(test)
          /\ klog[Len(klog)] = <<"test passed">>

\* testfunc has returned after ten records were read back
C10_Witness == ipc = "t_done" /\ t_i = N_EXPECTED /\ Len(Items) = N_EXPECTED

(* C11: kfifo_peek_len changes nothing of the fifo, on an empty fifo as   *)
(* on one that holds records: in, out, the mask and the storage are as    *)
(* before.  When the fifo holds a record the value returned is the        *)
(* payload length of the oldest record, the one the next kfifo_out        *)
(* removes and, given room, returns whole.                                 *)
C11_PeekLenPure ==
    [][(NewCall /\ last'.op = "peek_len") =>
          /\ test' = test
          /\ recs' = recs
          /\ Stored(test') = Stored(test)
          /\ ~kfifo_is_empty(test) =>
                /\ recs # <<>>
                /\ last'.ret = Len(Head(recs))
                /\ last'.ret = kfifo_out(test, FIFO_SIZE).ret
                /\ kfifo_out(test, FIFO_SIZE).buf = Head(recs)]_vars

\* kfifo_peek_len has reported 63 for a fifo whose oldest record has 63
\* bytes, and has been called on an empty fifo as well
C11_Witness ==
    /\ last.op = "peek_len"
    /\ last.ret = 63
    /\ recs # <<>>
    /\ Len(Head(recs)) = 63

(* C12: kfifo_is_empty is true exactly when kfifo_len is 0, which is      *)
(* exactly when no record is stored.  Right after a kfifo_in that stored  *)
(* its record, a record of length 0 included, it is false; right after a  *)
(* kfifo_out or kfifo_skip that removed the only record it is true again.  *)
C12_EmptyIffNoLength ==
    /\ [](/\ kfifo_is_empty(test) <=> kfifo_len(test) = 0
          /\ kfifo_is_empty(test) <=> recs = <<>>)
    /\ [][/\ (NewCall /\ last'.op = "in" /\ test'.in # test.in) =>
                ~kfifo_is_empty(test')
          /\ (NewCall /\ last'.op \in {"out", "skip"} /\ Len(recs) = 1) =>
                kfifo_is_empty(test')]_vars

\* a record of length 0 was stored in the empty fifo and the kfifo_out that
\* removed it has left the fifo empty
C12_Witness ==
    /\ last.op = "out"
    /\ last.ret = 0
    /\ calls = 2
    /\ test.out \in {Add32(x, RECSIZE) : x \in StartPos}
    /\ kfifo_is_empty(test)

(* C13: kfifo_out with room for d bytes on a fifo whose oldest record has *)
(* L payload bytes returns min(L, d) and exactly the first min(L, d)      *)
(* bytes of that record, and moves out forward by RECSIZE + L whether or  *)
(* not d < L: the rest of the record is dropped, no error is reported, in *)
(* and the storage are untouched, and the records behind it stay as they  *)
(* were, so the next kfifo_out starts at the first byte of the next one.  *)
C13_OutTruncates ==
    [][(NewCall /\ last'.op = "out" /\ ~kfifo_is_empty(test)) =>
          LET L == Len(Head(recs))
              d == last'.len
          IN  /\ last'.ret = Min(L, d)
              /\ last'.ret >= 0
              /\ last'.buf = Take(Head(recs), Min(L, d))
              /\ test'.out = Add32(test.out, RECSIZE + L)
              /\ kfifo_len(test') = kfifo_len(test) - (RECSIZE + L)
              /\ test'.in = test.in
              /\ test'.data = test.data
              /\ recs' = Tail(recs)
              /\ Stored(test') = Tail(Stored(test))
              /\ ~kfifo_is_empty(test') =>
                    kfifo_out(test', FIFO_SIZE).buf = Head(Tail(recs))]_vars

\* a kfifo_out with room for 2 bytes has removed a record of 63 bytes and
\* another record is behind it
C13_Witness ==
    /\ last.op = "out"
    /\ last.len = 2
    /\ last.ret = 2
    /\ recs # <<>>
    /\ kfifo_len(test) + 64 <= FIFO_SIZE
    /\ \E x \in StartPos : test.out = Add32(x, 64)

(* C17: kfifo_skip on a fifo that holds a record removes exactly the      *)
(* oldest record: the fifo afterwards is the fifo a kfifo_out of that     *)
(* record would leave (same in, out, length and storage), nothing is      *)
(* delivered, the later records are unchanged and in order, and the next  *)
(* kfifo_peek_len / kfifo_out report the record that was second.           *)
C17_SkipIsOutWithoutData ==
    [][(NewCall /\ last'.op = "skip") =>
          /\ recs # <<>>
          /\ test' = kfifo_out(test, FIFO_SIZE).f
          /\ test' = kfifo_out(test, 0).f
          /\ test'.out = Add32(test.out, RECSIZE + Len(Head(recs)))
          /\ kfifo_len(test') = kfifo_len(test) - (RECSIZE + Len(Head(recs)))
          /\ test'.in = test.in
          /\ test'.data = test.data
          /\ last'.buf = <<>>
          /\ recs' = Tail(recs)
          /\ Stored(test') = Tail(Stored(test))
          /\ Len(recs) >= 2 =>
                /\ kfifo_peek_len(test') = Len(recs[2])
                /\ kfifo_out(test', FIFO_SIZE).buf = recs[2]]_vars

\* kfifo_skip has removed a record of 63 bytes and a record is left
C17_Witness ==
    /\ last.op = "skip"
    /\ recs # <<>>
    /\ \E x \in StartPos : test.out = Add32(x, 64)

\* the value a call of p that ended with this step has returned
Returned(p) == res'[p].val

\* p leaves fifo_write / fifo_read through mutex_unlock with this step
WriteReturns(p) == pc[p] = "w_unlock" /\ pc'[p] = "idle"
ReadReturns(p) == pc[p] = "r_unlock" /\ pc'[p] = "idle"

(* C14, as stated: the only error a call of fifo_write or fifo_read        *)
(* returns is -ERESTARTSYS; every other call returns a count >= 0.         *)
C14_Original ==
    \A p \in Procs :
       res[p].op # "none" => (res[p].val >= 0 \/ res[p].val = -ERESTARTSYS)

(* C14, amended: fifo_write and fifo_read have two error outcomes.  A      *)
(* call whose lock wait is interrupted returns -ERESTARTSYS.  A call that  *)
(* got its lock returns -EFAULT when the caller's buffer cannot be         *)
(* accessed (only when there is something to copy: the record fits, resp.  *)
(* the fifo holds a record, and the length is not 0), and otherwise a      *)
(* count between 0 and the count asked for.  A record that does not fit    *)
(* and a read of the empty fifo are no errors: they return 0.              *)
C14_ErrorOutcomes ==
    [][\A p \in Procs :
          /\ (pc[p] \in {"w_lock", "r_lock"} /\ pc'[p] = "idle") =>
                Returned(p) = -ERESTARTSYS
          /\ (WriteReturns(p) \/ ReadReturns(p)) =>
                /\ Returned(p) = -EFAULT
                   \/ (Returned(p) >= 0 /\ Returned(p) <= arg[p].count)
                /\ Returned(p) = -EFAULT => loc[p].len > 0
          /\ WriteReturns(p) =>
                /\ loc[p].len + RECSIZE > loc[p].free => Returned(p) = 0
                /\ Returned(p) = -EFAULT =>
                      loc[p].len + RECSIZE <= loc[p].free
          /\ (pc[p] = "r_to_user" /\ pc'[p] # pc[p] /\ kfifo_is_empty(test)) =>
                /\ pc'[p] = "r_unlock"
                /\ loc'[p].ret = 0
                /\ loc'[p].copied = 0
          /\ (ReadReturns(p) /\ loc[p].n = 0 /\ loc[p].len = 0) =>
                Returned(p) = 0]_vars

\* a fifo_read that held read_lock has returned -EFAULT for a record another
\* caller had written
C14_Witness ==
    \E p, q \in Procs :
       /\ pc[p] = "idle"
       /\ res[p].op = "read"
       /\ res[p].val = -EFAULT
       /\ res[q].op = "write"
       /\ res[q].val > 0

\* the bytes the records of a sequence take in the fifo, length bytes
\* included
RECURSIVE FramedTotal(_)
FramedTotal(rs) ==
    IF rs = <<>> THEN 0 ELSE RECSIZE + Len(Head(rs)) + FramedTotal(Tail(rs))

(* C15: capacity accounting.  In every state the module reaches while the *)
(* fifo is allocated (self test, then fifo_write and fifo_read calls in    *)
(* any interleaving), with C the size of the storage, head = in mod C,     *)
(* tail = out mod C and length = in - out: 0 <= length <= C, length is the *)
(* framed size of the records stored, head and tail are below C,           *)
(* head = (tail + length) mod C, and head = tail exactly when the fifo is  *)
(* empty or full.                                                          *)
C15_CapacityAccounting ==
    test.mask # NullFifo.mask =>
       LET C      == test.mask + 1
           head   == Masked(test, test.in)
           tail   == Masked(test, test.out)
           length == kfifo_len(test)
       IN  /\ C = FIFO_SIZE
           /\ DOMAIN test.data = 0..(C - 1)
           /\ 0 <= length /\ length <= C
           /\ length = FramedTotal(recs)
           /\ kfifo_unused(test) = C - length
           /\ 0 <= head /\ head < C
           /\ 0 <= tail /\ tail < C
           /\ head = (tail + length) % C
           /\ head = tail <=> (length = 0 \/ length = C)

\* a fifo_write has filled the fifo: head = tail while length = C
C15_Witness ==
    /\ registered
    /\ kfifo_len(test) = FIFO_SIZE
    /\ Masked(test, test.in) = Masked(test, test.out)
    /\ \E p \in Procs : res[p].op = "write" /\ res[p].val = FIFO_SIZE - RECSIZE

\* p ends the copy step of kfifo_to_user with this step
ReadCopies(p) == pc[p] = "r_copy" /\ pc'[p] = "r_unlock"

(* C16, as stated: a fifo_read with room for d bytes hands out             *)
(* min(length, d) bytes, length being all the bytes stored, and moves out  *)
(* forward by the number of bytes handed out.                              *)
C16_Original ==
    [][\A p \in Procs :
          (ReadCopies(p) /\ loc'[p].ret = 0) =>
             /\ loc'[p].copied = Min(kfifo_len(test), arg[p].count)
             /\ test'.out = Add32(test.out, loc'[p].copied)]_vars

(* C16, amended: a fifo_read with room for d bytes on a fifo whose oldest  *)
(* record has L payload bytes returns min(L, d) and the first min(L, d)    *)
(* payload bytes of that record only (never the length byte, never bytes   *)
(* of a later record), and moves out forward by RECSIZE + L: the whole     *)
(* record is consumed.  in, the storage and the later records are          *)
(* unchanged.  If the caller's buffer cannot be written the call yields    *)
(* -EFAULT and the fifo is unchanged.  On an empty fifo it returns 0 and   *)
(* the fifo is unchanged.                                                  *)
C16_ReadWholeRecord ==
    [][\A p \in Procs :
          /\ ReadCopies(p) =>
                /\ recs # <<>>
                /\ loc[p].n = Len(Head(recs))
                /\ loc'[p].ret = 0 =>
                      LET L == Len(Head(recs))
                          d == arg[p].count
                      IN  /\ loc'[p].copied = Min(L, d)
                          /\ loc'[p].buf = Take(Head(recs), Min(L, d))
                          /\ test'.out = Add32(test.out, RECSIZE + L)
                          /\ test'.in = test.in
                          /\ test'.data = test.data
                          /\ recs' = Tail(recs)
                          /\ Stored(test') = Tail(Stored(test))
                /\ loc'[p].ret # 0 =>
                      /\ loc'[p].ret = -EFAULT
                      /\ test' = test
                      /\ recs' = recs
          /\ (pc[p] = "r_to_user" /\ pc'[p] = "r_unlock") =>
                /\ kfifo_is_empty(test)
                /\ test' = test
                /\ loc'[p].copied = 0
                /\ loc'[p].ret = 0
          /\ ReadReturns(p) =>
                /\ test' = test
                /\ Returned(p) = IF loc[p].ret # 0 THEN loc[p].ret
                                 ELSE Len(res'[p].buf)
                /\ res'[p].buf = loc[p].buf]_vars

\* a fifo_read with room for 2 bytes has returned 2 bytes of a longer
\* record another caller had written, and the fifo is empty
C16_Witness ==
    \E p, q \in Procs :
       /\ pc[p] = "idle"
       /\ res[p].op = "read"
       /\ res[p].val = 2
       /\ res[q].op = "write"
       /\ res[q].val > 2
       /\ kfifo_is_empty(test)

(* C20: none of the eleven kfifo_in calls of testfunc can fail for lack   *)
(* of space.  Before each of them the record with its length byte fits    *)
(* into the unused part of the 128 byte fifo, every record put in so far  *)
(* is stored, and after the eleventh the fifo holds eleven records in 72  *)
(* bytes.                                                                  *)
C20_SelfTestInsertsFit ==
    /\ ipc = "t_hello" =>
          /\ kfifo_unused(test) = FIFO_SIZE
          /\ RECSIZE + Len(hello) <= kfifo_unused(test)
    /\ ipc = "t_peeklen" => recs = <<hello>>
    /\ ipc = "t_fill" =>
          /\ Len(recs) = t_i + 1
          /\ kfifo_len(test) = FramedTotal(recs)
          /\ \A k \in 1..t_i : recs[k + 1] = expected_result(k - 1)
          /\ t_i < N_EXPECTED =>
                RECSIZE + (t_i + 1) <= kfifo_unused(test)
          /\ t_i = N_EXPECTED =>
                /\ kfifo_len(test) = 72
                /\ kfifo_unused(test) = FIFO_SIZE - 72

\* all eleven records are in: 72 bytes are used
C20_Witness ==
    /\ ipc = "t_fill"
    /\ t_i = N_EXPECTED
    /\ Len(recs) = N_EXPECTED + 1
    /\ kfifo_len(test) = 72

(* C18: a call of fifo_write or fifo_read that took its lock calls        *)
(* kfifo_from_user / kfifo_to_user and releases the lock with the step     *)
(* that returns, whether the kfifo call reported 0 or an error; no caller  *)
(* that is outside a call holds a lock; and when no wait is interrupted    *)
(* and scheduling is fair, every caller waiting for a lock gets it, and    *)
(* every call returns.                                                     *)
C18_LockReleased ==
    /\ [](\A p \in Procs :
            pc[p] = "idle" => (write_lock # p /\ read_lock # p))
    /\ [][\A p \in Procs :
            /\ WriteReturns(p) => (write_lock = p /\ write_lock' = 0)
            /\ ReadReturns(p) => (read_lock = p /\ read_lock' = 0)
            /\ (pc'[p] = "idle" /\ pc[p] # "idle") =>
                  pc[p] \in {"w_unlock", "r_unlock"}
            /\ (pc[p] = "w_lock" /\ pc'[p] # "w_lock") =>
                  (write_lock' = p /\ pc'[p] = "w_from_user")
            /\ (pc[p] = "r_lock" /\ pc'[p] # "r_lock") =>
                  (read_lock' = p /\ pc'[p] = "r_to_user")]_vars
    /\ \A p \in Procs : (pc[p] # "idle") ~> (pc[p] = "idle")

\* a fifo_write has returned -EFAULT and the caller that waited for
\* write_lock meanwhile now holds it
C18_Witness ==
    \E p, q \in Procs :
       /\ p # q
       /\ pc[q] = "idle"
       /\ res[q].op = "write"
       /\ res[q].val = -EFAULT
       /\ write_lock = p
       /\ pc[p] \in InWrite

\* the concatenation of the sequences of a sequence
RECURSIVE Flat(_)
Flat(ss) == IF ss = <<>> THEN <<>> ELSE Head(ss) \o Flat(Tail(ss))

\* a is an initial part of b
IsPrefix(a, b) == Len(a) <= Len(b) /\ a = Take(b, Len(a))

(* C19, as stated: the bytes the fifo_read calls have returned, one after *)
(* the other, are an initial part of the bytes the fifo_write calls have   *)
(* stored, one after the other.                                            *)
C19_Original == IsPrefix(Flat(stream.r), Flat(stream.w))

(* C19, amended: the fifo carries records, not a byte stream.  The k-th    *)
(* fifo_read that consumes a record consumes the k-th record a fifo_write  *)
(* stored and returns an initial part of its payload (the rest is dropped  *)
(* when the reader's buffer is shorter).  No record is lost, duplicated or *)
(* reordered: the records not yet consumed are exactly the ones stored     *)
(* after the consumed ones, in order; and no byte is returned that was not *)
(* written into the record returned.                                       *)
C19_RecordStream ==
    /\ Len(stream.r) <= Len(stream.w)
    /\ \A k \in 1..Len(stream.r) : IsPrefix(stream.r[k], stream.w[k])
    /\ ipc \in {"loaded", "exiting"} =>
          recs = SubSeq(stream.w, Len(stream.r) + 1, Len(stream.w))
    /\ \A p \in Procs :
          (pc[p] = "idle" /\ res[p].op = "read" /\ res[p].val > 0) =>
             /\ stream.r # <<>>
             /\ \E k \in 1..Len(stream.r) : res[p].buf = stream.r[k]

\* two records were written and read; the first read had room for 2 bytes
\* of the 3 written, so the second read returned bytes that do not follow
\* in the stream of the bytes written
C19_Witness ==
    /\ Len(stream.w) = 2
    /\ Len(stream.r) = 2
    /\ Len(stream.w[1]) = 3
    /\ Len(stream.r[1]) = 2
    /\ stream.r[2] = stream.w[2]
    /\ Len(stream.r[2]) = 3
    /\ kfifo_is_empty(test)

====
